---- MODULE Spec2Model ----
(***************************************************************************)
(* Model of src/vhost/src/vhost_user/gpu_message.rs: the 12-byte header of *)
(* the vhost-user GPU channel (VhostUserGpuMsgHeader<R>), its request-code *)
(* enumeration (GpuBackendReq), its flag set (VhostUserGpuHeaderFlag) and  *)
(* the operations on a header.                                             *)
(*                                                                         *)
(* A u32 is modelled as a natural number below 2^31 (the model checker's   *)
(* integers are 32-bit signed); no operation of the header does            *)
(* arithmetic, so only the bitwise operators and the byte layout matter,   *)
(* and both are computed bit by bit / byte by byte below.                  *)
(***************************************************************************)
EXTENDS Integers, Sequences, FiniteSets, TLC

VARIABLES hdr, req, origin, endian, last

vars == <<hdr, req, origin, endian, last>>

(***************************************************************************)
(* Bounds of the model.                                                    *)
(***************************************************************************)
\* raw request values 0..MaxRequest are explored (the registered ones and
\* the unknown ones around them)
MaxRequest == 12
\* caller-supplied and raw flags range over 0..2^FlagBits-1
FlagBits == 4
\* sizes 0..MaxSize are explored
MaxSize == 1

\* a value whose four bytes are pairwise different (0x01020304)
WideValue == 1 * 2^24 + 2 * 2^16 + 3 * 2^8 + 4
\* a flags value with high bits set (bit 30, bit 8, REPLY and version)
WideFlags == 2^30 + 2^8 + 5

RequestSamples == (0..MaxRequest) \cup {999}
FlagSamples == (0..(2^FlagBits - 1)) \cup {WideFlags}
SizeSamples == (0..MaxSize) \cup {WideValue}

(***************************************************************************)
(* Bitwise operators on u32 values, bit by bit.                            *)
(***************************************************************************)
RECURSIVE BitAnd(_, _)
BitAnd(a, b) ==
    IF a = 0 \/ b = 0 THEN 0
    ELSE (IF a % 2 = 1 /\ b % 2 = 1 THEN 1 ELSE 0) + 2 * BitAnd(a \div 2, b \div 2)

RECURSIVE BitOr(_, _)
BitOr(a, b) ==
    IF a = 0 THEN b
    ELSE IF b = 0 THEN a
    ELSE (IF a % 2 = 1 \/ b % 2 = 1 THEN 1 ELSE 0) + 2 * BitOr(a \div 2, b \div 2)

\* a & !b
RECURSIVE BitAndNot(_, _)
BitAndNot(a, b) ==
    IF a = 0 THEN 0
    ELSE (IF a % 2 = 1 /\ b % 2 = 0 THEN 1 ELSE 0) + 2 * BitAndNot(a \div 2, b \div 2)

(***************************************************************************)
(* GpuBackendReq: the variants in declaration order.  The first variant    *)
(* has the explicit discriminant 1 and each later one is one more than its *)
(* predecessor, so a variant's wire value is its position in this list.    *)
(***************************************************************************)
GpuBackendReq ==
    << "GET_PROTOCOL_FEATURES", "SET_PROTOCOL_FEATURES", "GET_DISPLAY_INFO",
       "CURSOR_POS", "CURSOR_POS_HIDE", "SCANOUT", "UPDATE", "DMABUF_SCANOUT",
       "DMABUF_UPDATE", "GET_EDID", "VHOST_USER_GPU_DMABUF_SCANOUT2" >>

Codes == { GpuBackendReq[i] : i \in 1..Len(GpuBackendReq) }

\* request.into(): the discriminant of a variant
into(code) == CHOOSE i \in 1..Len(GpuBackendReq) : GpuBackendReq[i] = code

Ok(v) == [ok |-> TRUE, val |-> v]
Err(e) == [ok |-> FALSE, val |-> e]

\* R::try_from(u32): the variant with that discriminant, or an error
try_from(value) ==
    IF \E c \in Codes : into(c) = value
    THEN Ok(CHOOSE c \in Codes : into(c) = value)
    ELSE Err("UnknownValue")

(***************************************************************************)
(* VhostUserGpuHeaderFlag                                                  *)
(***************************************************************************)
REPLY == 4
\* the union of the flags the channel defines
ALL_FLAGS == REPLY
\* the bits a flag absent from the channel's definition can name: any single
\* bit that is neither the version bit nor REPLY
UndefinedBits == { 2^i : i \in 0..(FlagBits - 1) } \ {1, REPLY}

(***************************************************************************)
(* VhostUserGpuMsgHeader<R>                                                *)
(***************************************************************************)
Header(r, f, s) == [request |-> r, flags |-> f, size |-> s]

\* new without the "| 0x1"
new_no_version(request, flags, size) ==
    Header(into(request), BitAnd(flags, ALL_FLAGS), size)

\* new storing the caller's flags without masking them
new_unmasked(request, flags, size) ==
    Header(into(request), BitOr(flags, 1), size)

\* new masking with the mask of the sibling header type (REPLY | NEED_REPLY)
new_sibling_mask(request, flags, size) ==
    Header(into(request), BitOr(BitAnd(flags, 12), 1), size)

\* new storing a zero-based discriminant
new_zero_based(request, flags, size) ==
    Header(into(request) - 1, BitOr(BitAnd(flags, ALL_FLAGS), 1), size)

new(request, flags, size) ==
    LET fl == BitOr(BitAnd(flags, ALL_FLAGS), 1)
    IN  Header(into(request), fl, size)

\* the all-zero value a derived Default would give
default_zeroed == Header(0, 0, 0)

default == Header(0, 1, 0)

\* get_code without the map_err
get_code_raw_error(h) == try_from(h.request)

get_code(h) ==
    LET r == try_from(h.request)
    IN  IF r.ok THEN r ELSE Err("InvalidMessage")

is_reply(h) == BitAnd(h.flags, REPLY) # 0

\* set_reply whose clearing branch lacks the complement ("&= REPLY")
set_reply_no_complement(h, flag) ==
    IF flag
    THEN [h EXCEPT !.flags = BitOr(h.flags, REPLY)]
    ELSE [h EXCEPT !.flags = BitAnd(h.flags, REPLY)]

set_reply(h, flag) ==
    IF flag
    THEN [h EXCEPT !.flags = BitOr(h.flags, REPLY)]
    ELSE [h EXCEPT !.flags = BitAndNot(h.flags, REPLY)]

\* NEED_REPLY is passed in: the flag set does not define it
is_need_reply(h, NEED_REPLY) == BitAnd(h.flags, NEED_REPLY) # 0

\* is_reply_for that does not look at the request's REPLY bit
is_reply_for_any_req(h, r) ==
    LET code1 == get_code(h)
        code2 == get_code(r)
    IN  IF code1.ok /\ code2.ok
        THEN is_reply(h) /\ code1.val = code2.val
        ELSE FALSE

is_reply_for(h, r) ==
    LET code1 == get_code(h)
        code2 == get_code(r)
    IN  IF code1.ok /\ code2.ok
        THEN is_reply(h) /\ ~is_reply(r) /\ code1.val = code2.val
        ELSE FALSE

get_size(h) == h.size

set_size(h, size) == [h EXCEPT !.size = size]

\* is_valid as an upper-bound check only
is_valid_upper_only(h) == h.request <= Len(GpuBackendReq)

is_valid(h) == get_code(h).ok

eq(h, other) ==
    h.request = other.request /\ h.flags = other.flags /\ h.size = other.size

(***************************************************************************)
(* Byte layout (repr(C, packed), ByteValued): request, flags, size, four   *)
(* bytes each in the machine's byte order; the PhantomData has no bytes.   *)
(***************************************************************************)
Endians == {"little", "big"}

u32_bytes(v, e) ==
    LET b0 == v % 256
        b1 == (v \div 256) % 256
        b2 == (v \div 65536) % 256
        b3 == (v \div 16777216) % 256
    IN  IF e = "little" THEN <<b0, b1, b2, b3>> ELSE <<b3, b2, b1, b0>>

u32_from(b, e) ==
    IF e = "little"
    THEN b[1] + 256 * b[2] + 65536 * b[3] + 16777216 * b[4]
    ELSE b[4] + 256 * b[3] + 65536 * b[2] + 16777216 * b[1]

as_slice(h, e) ==
    u32_bytes(h.request, e) \o u32_bytes(h.flags, e) \o u32_bytes(h.size, e)

\* from_slice reading flags and size from each other's offset
from_slice_misplaced(b, e) ==
    Header(u32_from(SubSeq(b, 1, 4), e),
           u32_from(SubSeq(b, 9, 12), e),
           u32_from(SubSeq(b, 5, 8), e))

from_slice(b, e) ==
    Header(u32_from(SubSeq(b, 1, 4), e),
           u32_from(SubSeq(b, 5, 8), e),
           u32_from(SubSeq(b, 9, 12), e))

(***************************************************************************)
(* State.  hdr is the header its owner holds, req a second header it is    *)
(* compared with; origin tells how hdr came to be ("none": no header is    *)
(* held); endian is the byte order of the machine; last records the        *)
(* operation just applied, its argument and its result.                    *)
(***************************************************************************)
NoHeader == Header(0, 0, 0)

Step(op, arg, res) == [op |-> op, arg |-> arg, res |-> res]

RawHeaders ==
    { Header(r, f, s) : r \in RequestSamples, f \in FlagSamples, s \in SizeSamples }

\* the 12-byte inputs a receiver reads off the wire
RawBytes(e) == { as_slice(h, e) : h \in RawHeaders }

Init ==
    /\ hdr = NoHeader
    /\ req = NoHeader
    /\ origin = "none"
    /\ endian \in Endians
    /\ last = Step("none", 0, 0)

(***************************************************************************)
(* Life of one header: created once (by new, by default or by reading 12   *)
(* bytes), read and changed by its owner, then discarded.                  *)
(***************************************************************************)
New(c, f, s) ==
    /\ origin = "none"
    /\ hdr' = new(c, f, s)
    /\ origin' = "new"
    /\ last' = Step("new", [request |-> c, flags |-> f, size |-> s], 0)
    /\ UNCHANGED <<req, endian>>

Default ==
    /\ origin = "none"
    /\ hdr' = default
    /\ origin' = "default"
    /\ last' = Step("default", 0, 0)
    /\ UNCHANGED <<req, endian>>

FromBytes(b) ==
    /\ origin = "none"
    /\ hdr' = from_slice(b, endian)
    /\ origin' = "raw"
    /\ last' = Step("from_bytes", b, 0)
    /\ UNCHANGED <<req, endian>>

SetReply(flag) ==
    /\ origin # "none"
    /\ hdr' = set_reply(hdr, flag)
    /\ last' = Step("set_reply", flag, hdr)
    /\ UNCHANGED <<req, origin, endian>>

SetSize(n) ==
    /\ origin # "none"
    /\ hdr' = set_size(hdr, n)
    /\ last' = Step("set_size", n, hdr)
    /\ UNCHANGED <<req, origin, endian>>

GetCode ==
    /\ origin # "none"
    /\ last' = Step("get_code", 0, get_code(hdr))
    /\ UNCHANGED <<hdr, req, origin, endian>>

IsReply ==
    /\ origin # "none"
    /\ last' = Step("is_reply", 0, is_reply(hdr))
    /\ UNCHANGED <<hdr, req, origin, endian>>

IsNeedReply(bit) ==
    /\ origin # "none"
    /\ last' = Step("is_need_reply", bit, is_need_reply(hdr, bit))
    /\ UNCHANGED <<hdr, req, origin, endian>>

IsValid ==
    /\ origin # "none"
    /\ last' = Step("is_valid", 0, is_valid(hdr))
    /\ UNCHANGED <<hdr, req, origin, endian>>

GetSize ==
    /\ origin # "none"
    /\ last' = Step("get_size", 0, get_size(hdr))
    /\ UNCHANGED <<hdr, req, origin, endian>>

\* headers that differ from h in at most one field
Neighbours(h) ==
    { h, [h EXCEPT !.request = (h.request + 1) % (MaxRequest + 1)],
         [h EXCEPT !.flags = IF h.flags % 2 = 1 THEN h.flags - 1 ELSE h.flags + 1],
         [h EXCEPT !.size = (h.size + 1) % (MaxSize + 1)] }

Eq(other) ==
    /\ origin # "none"
    /\ last' = Step("eq", other, eq(hdr, other))
    /\ UNCHANGED <<hdr, req, origin, endian>>

AsSlice ==
    /\ origin # "none"
    /\ last' = Step("as_slice", 0, as_slice(hdr, endian))
    /\ UNCHANGED <<hdr, req, origin, endian>>

\* the bytes just written are read back into a header
Reread ==
    /\ last.op = "as_slice"
    /\ hdr' = from_slice(last.res, endian)
    /\ origin' = "raw"
    /\ last' = Step("reread", hdr, last.res)
    /\ UNCHANGED <<req, endian>>

Discard ==
    /\ origin # "none"
    /\ hdr' = NoHeader
    /\ origin' = "none"
    /\ last' = Step("none", 0, 0)
    /\ UNCHANGED <<req, endian>>

Next ==
    \/ origin = "none" /\ \E c \in Codes, f \in FlagSamples, s \in SizeSamples : New(c, f, s)
    \/ Default
    \/ origin = "none" /\ \E b \in RawBytes(endian) : FromBytes(b)
    \/ \E flag \in BOOLEAN : SetReply(flag)
    \/ \E n \in SizeSamples : SetSize(n)
    \/ GetCode
    \/ IsReply
    \/ \E bit \in UndefinedBits : IsNeedReply(bit)
    \/ IsValid
    \/ GetSize
    \/ origin # "none" /\ \E other \in Neighbours(hdr) : Eq(other)
    \/ AsSlice
    \/ Reread
    \/ Discard

Spec == Init /\ [][Next]_vars

(***************************************************************************)
(* Correlation of two headers: req is the other header (any 12 bytes a     *)
(* peer can send), hdr is created by default or by reading 12 bytes, and   *)
(* the two are compared in both directions.                                *)
(***************************************************************************)
PairFlags == {0, 1, 2, REPLY, REPLY + 1, 2^FlagBits - 1, WideFlags}

PairSizes == {0, MaxSize}

PairHeaders ==
    { Header(r, f, s) : r \in RequestSamples, f \in PairFlags, s \in PairSizes }

PairBytes(e) == { as_slice(h, e) : h \in PairHeaders }

InitPair ==
    /\ hdr = NoHeader
    /\ req \in PairHeaders
    /\ origin = "none"
    /\ endian = "little"
    /\ last = Step("none", 0, 0)

\* swapped = FALSE: hdr.is_reply_for(&req); swapped = TRUE: req.is_reply_for(&hdr)
IsReplyFor(swapped) ==
    /\ origin # "none"
    /\ last' = Step("is_reply_for", swapped,
                    IF swapped THEN is_reply_for(req, hdr) ELSE is_reply_for(hdr, req))
    /\ UNCHANGED <<hdr, req, origin, endian>>

NextPair ==
    \/ Default
    \/ origin = "none" /\ \E b \in PairBytes(endian) : FromBytes(b)
    \/ \E swapped \in BOOLEAN : IsReplyFor(swapped)
    \/ GetCode
    \/ IsReply
    \/ IsValid

SpecPair == InitPair /\ [][NextPair]_vars

(***************************************************************************)
(* Properties.  They are stated on the fields of the headers: a request is *)
(* registered iff it lies in 1..11, and bit k of a value v is              *)
(* (v \div 2^k) % 2.                                                       *)
(***************************************************************************)
Registered(h) == h.request \in 1..11

HasBit(v, bit) == (v \div bit) % 2 = 1

Constructed == origin \in {"new", "default"}

\* C1: the version bit 0x1 is set in every header made by new (whatever
\* flags the caller passed) or by default, and stays set under any sequence
\* of set_reply and set_size.
C1_VersionBitAlwaysSet == Constructed => HasBit(hdr.flags, 1)

C1_Witness ==
    /\ origin = "new"
    /\ last.op = "set_reply"
    /\ last.arg = FALSE
    /\ HasBit(last.res.flags, REPLY)
    /\ hdr.flags = 1

\* C2: new stores (flags & defined mask) | 0x1: no bit outside {0x1, REPLY},
\* and REPLY exactly when the caller passed it.
C2_NewMasksFlags ==
    last.op = "new" =>
        /\ hdr.flags = (IF HasBit(last.arg.flags, 4) THEN 4 ELSE 0) + 1
        /\ hdr.flags \in {1, 5}

C2_Witness ==
    /\ last.op = "new"
    /\ last.arg.flags = 2^FlagBits - 1
    /\ hdr.flags = 5

\* C3: is_valid() is true iff request is one of the registered values 1..11,
\* whatever the flags and the size, also for a header read from raw bytes.
C3_ValidIffRegistered ==
    last.op = "is_valid" => last.res = (hdr.request \in 1..11)

C3_Witness ==
    /\ last.op = "is_valid"
    /\ origin = "raw"
    /\ hdr.request = 11
    /\ hdr.flags = 2
    /\ hdr.size = WideValue
    /\ last.res = TRUE

\* C4: self.is_reply_for(req) is true iff both requests are registered, they
\* are the same code, self has REPLY set and req has it clear; the swapped
\* call of a correlating pair is false.
C4_ReplyForIffFourConditions ==
    last.op = "is_reply_for" =>
        LET self == IF last.arg THEN req ELSE hdr
            other == IF last.arg THEN hdr ELSE req
        IN  /\ last.res = ( /\ Registered(self)
                            /\ Registered(other)
                            /\ self.request = other.request
                            /\ HasBit(self.flags, 4)
                            /\ ~HasBit(other.flags, 4) )
            /\ last.res => ~is_reply_for(other, self)

C4_Witness ==
    /\ last.op = "is_reply_for"
    /\ last.arg = FALSE
    /\ last.res = TRUE
    /\ hdr.request = 4
    /\ hdr.size # req.size

\* C5: after set_reply(b), is_reply() is b (so true then false leaves it
\* false), and a second set_reply(b) changes nothing.
C5_SetReply ==
    [][ /\ last'.op = "set_reply" => HasBit(hdr'.flags, 4) = last'.arg
        /\ (last.op = "set_reply" /\ last'.op = "is_reply") => last'.res = last.arg
        /\ (last.op = "set_reply" /\ last'.op = "set_reply" /\ last'.arg = last.arg)
              => hdr' = hdr ]_vars

C5_Witness ==
    /\ last.op = "set_reply"
    /\ last.arg = FALSE
    /\ HasBit(last.res.flags, 4)
    /\ ~HasBit(hdr.flags, 4)

\* C6: the header is written as 12 bytes, request at 0, flags at 4, size at
\* 8, and reading them back gives an equal header; two headers are equal iff
\* their three fields are.
C6_RoundTrip ==
    /\ last.op = "as_slice" =>
          /\ Len(last.res) = 12
          /\ SubSeq(last.res, 1, 4) = u32_bytes(hdr.request, endian)
          /\ SubSeq(last.res, 5, 8) = u32_bytes(hdr.flags, endian)
          /\ SubSeq(last.res, 9, 12) = u32_bytes(hdr.size, endian)
    /\ last.op = "reread" => eq(hdr, last.arg) /\ hdr = last.arg
    /\ last.op = "eq" => last.res = (hdr = last.arg)

C6_Witness ==
    /\ last.op = "reread"
    /\ hdr.flags = WideFlags
    /\ hdr.size = WideValue
    /\ hdr.request = 999

\* C7: new(c, f, s) gives a valid header whose code is c and whose size is
\* s, for every registered code; the wire values of the codes are distinct.
C7_NewKeepsCodeAndSize ==
    /\ last.op = "new" =>
          /\ hdr.request \in 1..11
          /\ is_valid(hdr)
          /\ get_code(hdr) = Ok(last.arg.request)
          /\ get_size(hdr) = last.arg.size
    /\ \A c1, c2 \in Codes : into(c1) = into(c2) => c1 = c2

C7_Witness ==
    /\ last.op = "new"
    /\ last.arg.request = "VHOST_USER_GPU_DMABUF_SCANOUT2"
    /\ hdr.request = 11
    /\ hdr.size = WideValue

\* C8: with an unregistered request, get_code is Err(InvalidMessage),
\* is_valid is false and is_reply_for is false on either side; with a
\* registered one get_code is Ok; none of the calls changes a header.
C8_InvalidMessage ==
    [][ /\ last'.op \in {"get_code", "is_valid", "is_reply_for"} =>
              hdr' = hdr /\ req' = req
        /\ last'.op = "get_code" =>
              IF Registered(hdr) THEN last'.res.ok
              ELSE last'.res = Err("InvalidMessage")
        /\ (last'.op = "is_valid" /\ ~Registered(hdr)) => last'.res = FALSE
        /\ (last'.op = "is_reply_for" /\ (~Registered(hdr) \/ ~Registered(req)))
              => last'.res = FALSE ]_vars

C8_Witness ==
    /\ last.op = "is_reply_for"
    /\ last.arg = TRUE
    /\ hdr.request = 12
    /\ Registered(req)
    /\ HasBit(req.flags, 4)
    /\ ~HasBit(hdr.flags, 4)
    /\ last.res = FALSE

\* C9: the default header is request 0, flags 0x1, size 0: not valid, not a
\* reply, not a reply for any header, and no header is a reply for it.
C9_DefaultHeader ==
    origin = "default" =>
        /\ hdr = [request |-> 0, flags |-> 1, size |-> 0]
        /\ last.op = "is_valid" => last.res = FALSE
        /\ last.op = "get_code" => last.res = Err("InvalidMessage")
        /\ last.op = "is_reply" => last.res = FALSE
        /\ last.op = "is_reply_for" => last.res = FALSE

C9_Witness ==
    /\ origin = "default"
    /\ last.op = "is_reply_for"
    /\ last.arg = TRUE
    /\ Registered(req)
    /\ HasBit(req.flags, 4)

\* C10: is_need_reply tests a bit that is neither the version bit nor
\* REPLY; no header made by new or default and changed by set_reply and
\* set_size has such a bit, so is_need_reply is false on it.
C10_NeedReplyNeverSet ==
    Constructed =>
        /\ \A bit \in UndefinedBits : ~HasBit(hdr.flags, bit)
        /\ last.op = "is_need_reply" => last.res = FALSE

C10_Witness ==
    /\ origin = "new"
    /\ last.op = "is_need_reply"
    /\ last.arg = 8
    /\ HasBit(hdr.flags, 4)
    /\ last.res = FALSE

====
